---- MODULE Spec2Model ----
(***************************************************************************)
(* Model of the chunking / contextual-embedding core of vf_knowledgeflow:  *)
(*   - ContentProcessor.manual_chunk / semantic_chunk / paragraph_chunk    *)
(*     (src/content_processor.py), one action per loop iteration;          *)
(*   - ContextualVectorDB (src/contextual_vector_db.py): load_chunks,      *)
(*     search, save_db, load_db over an in-memory store and a disk of      *)
(*     pickled snapshots.                                                  *)
(* The specifications share the variables: SpecChunker runs one chunking   *)
(* call from a bounded input; Spec runs sequences of store operations;     *)
(* SpecRetrieval loads a store and queries it, with and without reranker;  *)
(* SpecEnrich follows one load_chunks thread by thread, or one             *)
(* process_content call by call; SpecEmbed runs one embed_texts batch by   *)
(* batch; SpecPipeline hands the chunks of process_content to load_chunks. *)
(***************************************************************************)
EXTENDS Integers, Sequences, FiniteSets, TLC

(***************************************************************************)
(* Bounds of the model.                                                    *)
(***************************************************************************)
\* longest input, in units (sentences, sections, paragraphs)
MaxUnits == 4
\* largest token count of one unit
MaxUnitTokens == 3
\* largest max_tokens argument
MaxMaxTokens == 4
\* largest overlap_tokens argument
MaxOverlap == 2
\* largest k of a search
MaxK == 2
\* most calls of load_chunks, search and save_db in one behaviour
MaxCalls == 3
\* most successful context calls counted by the token counters
MaxContextCalls == 2
\* longest list of texts handed to embed_texts
MaxTexts == 3
\* largest batch_size argument of embed_texts
MaxBatch == 3
\* largest parallel_threads argument of load_chunks
MaxThreads == 2

VARIABLES
    \* ---- ContentProcessor: one chunking call --------------------------
    strategy,        \* 'manual' | 'semantic' | 'paragraph'
    text,            \* the split input: sequence of [blank, tok] units
    segments,        \* the list the loop iterates (positions in text)
    max_tokens,
    overlap_tokens,
    pos,             \* loop position in segments (next one to process)
    chunks,          \* the list being returned
    current_chunk,   \* buffer: positions in text
    current_tokens,
    chunk_id,
    seeded,          \* how many units of current_chunk are overlap seed
    cpc,             \* "loop" | "done"
    \* ---- ContextualVectorDB: one store instance and the disk ---------
    name,            \* self.name (decides self.db_path)
    embedding_model, \* TRUE iff a Gemini key was configured
    anthropic_client,\* TRUE iff an Anthropic key was configured
    cohere_client,   \* TRUE iff a Cohere key was configured
    embeddings,      \* self.embeddings
    metadata,        \* self.metadata
    query_cache,     \* self.query_cache
    token_counts,    \* self.token_counts
    disk,            \* db_path -> file
    ret,             \* outcome of the last call: what it returned or raised
    valid,           \* history: per name, the store state of the last
                     \* save_db that completed (or NoSnapshot)
    ncalls,          \* calls made so far
    \* ---- one run of load_chunks, thread by thread ---------------------
    lc_chunks,       \* the chunks argument
    lc_args,         \* generate_context, generate_metadata, parallel_threads
    mpc,             \* where the calling thread is
    task,            \* per submitted future: where its worker is, and the
                     \* locals of process_chunk
    token_lock,      \* self.token_lock: 0 when free, else the holder
    lc_texts,        \* the local list 'texts_to_embed' of load_chunks
    lc_metadata,     \* the local list 'metadata' of load_chunks
    yielded,         \* the futures as_completed has yielded
    counts0,         \* history: token_counts when the run started
    store0,          \* history: embeddings and metadata when the run started
    \* ---- one run of ContentProcessor.process_content -------------------
    cp_client,       \* TRUE iff the processor has an Anthropic client
    cp_args,         \* generate_context, generate_metadata
    cp_counts,       \* the processor's token_counts
    ppc,             \* where process_content is
    pidx,            \* index of the loop over chunks
    plog,            \* history: the counters at the start, the chunks as
                     \* the strategy returned them, and what the model
                     \* answered for each chunk
    \* ---- one run of ContextualVectorDB.embed_texts ---------------------
    et_texts,        \* the texts argument
    et_batch_size,   \* the batch_size argument
    et_i,            \* the loop variable i, counted from 1
    et_embeddings,   \* the local list 'embeddings'
    et_sent,         \* history: the batches handed to the provider
    epc              \* where embed_texts is

chunkerVars == <<strategy, text, segments, max_tokens, overlap_tokens, pos,
                 chunks, current_chunk, current_tokens, chunk_id, seeded, cpc>>

storeState == <<embeddings, metadata, query_cache, token_counts>>

storeVars == <<name, embedding_model, anthropic_client, cohere_client,
               embeddings, metadata, query_cache, token_counts, disk, ret,
               valid, ncalls>>

poolVars == <<lc_chunks, lc_args, mpc, task, token_lock, lc_texts,
              lc_metadata, yielded, counts0, store0>>

procVars == <<cp_client, cp_args, cp_counts, ppc, pidx, plog>>

embedVars == <<et_texts, et_batch_size, et_i, et_embeddings, et_sent, epc>>

vars == <<chunkerVars, storeVars, poolVars, procVars, embedVars>>

(***************************************************************************)
(* Generic helpers.                                                        *)
(***************************************************************************)
SeqsUpTo(S, n) == UNION {[1..k -> S] : k \in 0..n}

RECURSIVE SumTokens(_, _)
\* sum of count_tokens over the units at the positions in ps
SumTokens(txt, ps) ==
    IF ps = <<>> THEN 0
    ELSE txt[Head(ps)].tok + SumTokens(txt, Tail(ps))

RECURSIVE Flatten(_)
Flatten(ss) == IF ss = <<>> THEN <<>> ELSE Head(ss) \o Flatten(Tail(ss))

\* positions 1..n as a sequence
Positions(n) == [k \in 1..n |-> k]

(***************************************************************************)
(* ContentProcessor                                                        *)
(***************************************************************************)
\* A unit of split text: whether unit.strip() is empty, and count_tokens(unit).
\* A blank unit is never counted by the code; it carries tok = 1.
NonBlankUnits == [blank : {FALSE}, tok : 1..MaxUnitTokens]
BlankUnits == [blank : {TRUE}, tok : {1}]

\* count_tokens that takes every unit for one token
CountTokensOne(p) == 1

\* count_tokens of the unit at position p
count_tokens(p) == text[p].tok

\* ChunkDict with the id never advanced
ChunkDictStaleId(id, buffer, tokens, type, seed) ==
    [id |-> 0, text |-> buffer, tokens |-> tokens, type |-> type, seed |-> seed]

\* the chunk dictionary appended to chunks. text is the joined buffer, kept
\* as the sequence of its units; seed records how many leading units came
\* from the overlap of the preceding chunk.
ChunkDict(id, buffer, tokens, type, seed) ==
    [id |-> id, text |-> buffer, tokens |-> tokens, type |-> type, seed |-> seed]

RECURSIVE OverlapLoop(_, _, _)
\* for sent in reversed(current_chunk): insert at the front while the sum
\* stays within overlap_tokens, break at the first that does not fit.
\* rest is the part of the buffer not yet visited, acc the overlap so far.
OverlapLoop(rest, acc, count) ==
    IF rest = <<>> THEN acc
    ELSE LET sent == rest[Len(rest)]
             sent_tokens == count_tokens(sent)
         IN  IF count + sent_tokens <= overlap_tokens
             THEN OverlapLoop(SubSeq(rest, 1, Len(rest) - 1),
                              <<sent>> \o acc, count + sent_tokens)
             ELSE acc

\* OverlapChunk with the overlap branch lost: the buffer always restarts empty
OverlapChunkNone(buffer) == <<>>

\* OverlapChunk that keeps the whole buffer as overlap
OverlapChunkWhole(buffer) == buffer

\* the buffer that follows a flush of manual_chunk
OverlapChunk(buffer) ==
    IF overlap_tokens > 0 THEN OverlapLoop(buffer, <<>>, 0) ELSE <<>>

\* RestartBuffer that forgets the unit that triggered the flush
RestartBufferEmpty(unit) == <<>>

\* the buffer that follows a flush of semantic_chunk / paragraph_chunk
RestartBuffer(unit) == <<unit>>

\* paragraphs = [p.strip() for p in text.split('\n\n') if p.strip()]
NonBlankPositions(txt) ==
    SelectSeq(Positions(Len(txt)), LAMBDA p : ~txt[p].blank)

\* the arguments of one chunking call, after splitting
ChunkerInputs ==
    /\ strategy \in {"manual", "semantic", "paragraph"}
    /\ max_tokens \in 1..MaxMaxTokens
    /\ IF strategy = "manual"
       THEN /\ text \in SeqsUpTo(NonBlankUnits, MaxUnits)
            /\ overlap_tokens \in 0..MaxOverlap
            /\ segments = Positions(Len(text))
       ELSE /\ text \in SeqsUpTo(NonBlankUnits \cup BlankUnits, MaxUnits)
            /\ overlap_tokens = 0
            /\ segments = IF strategy = "paragraph"
                          THEN NonBlankPositions(text)
                          ELSE Positions(Len(text))
    /\ pos = 1
    /\ chunks = <<>>
    /\ current_chunk = <<>>
    /\ current_tokens = 0
    /\ chunk_id = 0
    /\ seeded = 0
    /\ cpc = "loop"

ChunkerParams == <<strategy, text, segments, max_tokens, overlap_tokens>>

\* one iteration of the loop of manual_chunk
ManualStep ==
    /\ cpc = "loop" /\ strategy = "manual" /\ pos <= Len(segments)
    /\ LET sentence == segments[pos]
           sentence_tokens == count_tokens(sentence)
           flush == current_tokens + sentence_tokens > max_tokens
                    /\ current_chunk # <<>>
           overlap_chunk == OverlapChunk(current_chunk)
           buffer == IF flush THEN overlap_chunk ELSE current_chunk
           tokens == IF flush THEN SumTokens(text, overlap_chunk)
                     ELSE current_tokens
       IN  /\ chunks' = IF flush
                        THEN Append(chunks, ChunkDict(chunk_id, current_chunk,
                                        current_tokens, "manual", seeded))
                        ELSE chunks
           /\ chunk_id' = IF flush THEN chunk_id + 1 ELSE chunk_id
           /\ seeded' = IF flush THEN Len(overlap_chunk) ELSE seeded
           /\ current_chunk' = Append(buffer, sentence)
           /\ current_tokens' = tokens + sentence_tokens
    /\ pos' = pos + 1
    /\ UNCHANGED <<ChunkerParams, cpc, storeVars, poolVars, procVars, embedVars>>

\* one iteration of the loop of semantic_chunk
SemanticStep ==
    /\ cpc = "loop" /\ strategy = "semantic" /\ pos <= Len(segments)
    /\ LET section == segments[pos]
           section_tokens == count_tokens(section)
           flush == current_tokens + section_tokens > max_tokens
                    /\ current_chunk # <<>>
       IN  IF text[section].blank
           THEN UNCHANGED <<chunks, chunk_id, current_chunk, current_tokens>>
           ELSE /\ chunks' = IF flush
                             THEN Append(chunks, ChunkDict(chunk_id, current_chunk,
                                             current_tokens, "semantic", 0))
                             ELSE chunks
                /\ chunk_id' = IF flush THEN chunk_id + 1 ELSE chunk_id
                /\ current_chunk' = IF flush THEN RestartBuffer(section)
                                    ELSE Append(current_chunk, section)
                /\ current_tokens' = IF flush THEN section_tokens
                                     ELSE current_tokens + section_tokens
    /\ pos' = pos + 1
    /\ UNCHANGED <<ChunkerParams, seeded, cpc, storeVars, poolVars, procVars, embedVars>>

\* one iteration of the loop of paragraph_chunk
ParagraphStep ==
    /\ cpc = "loop" /\ strategy = "paragraph" /\ pos <= Len(segments)
    /\ LET para == segments[pos]
           para_tokens == count_tokens(para)
           flush == current_tokens + para_tokens > max_tokens
                    /\ current_chunk # <<>>
       IN  /\ chunks' = IF flush
                        THEN Append(chunks, ChunkDict(chunk_id, current_chunk,
                                        current_tokens, "paragraph", 0))
                        ELSE chunks
           /\ chunk_id' = IF flush THEN chunk_id + 1 ELSE chunk_id
           /\ current_chunk' = IF flush THEN RestartBuffer(para)
                               ELSE Append(current_chunk, para)
           /\ current_tokens' = IF flush THEN para_tokens
                                ELSE current_tokens + para_tokens
    /\ pos' = pos + 1
    /\ UNCHANGED <<ChunkerParams, seeded, cpc, storeVars, poolVars, procVars, embedVars>>

\* FinalChunk that returns without the buffer
FinalChunkDropped ==
    /\ cpc = "loop" /\ pos > Len(segments)
    /\ cpc' = "done"
    /\ UNCHANGED <<ChunkerParams, pos, chunks, current_chunk, current_tokens,
                   chunk_id, seeded, storeVars, poolVars, procVars, embedVars>>

\* "Add final chunk" and return, the same in the three strategies
FinalChunk ==
    /\ cpc = "loop" /\ pos > Len(segments)
    /\ chunks' = IF current_chunk # <<>>
                 THEN Append(chunks, ChunkDict(chunk_id, current_chunk,
                                 current_tokens, strategy, seeded))
                 ELSE chunks
    /\ cpc' = "done"
    /\ UNCHANGED <<ChunkerParams, pos, current_chunk, current_tokens,
                   chunk_id, seeded, storeVars, poolVars, procVars, embedVars>>



(***************************************************************************)
(* ContextualVectorDB                                                      *)
(*                                                                         *)
(* Strings are sequences of atoms, so that formatting is concatenation.    *)
(* The external providers are modelled by their contract: the embedding    *)
(* provider returns one vector per text, a fixed function of the text; a   *)
(* provider call may also fail.                                            *)
(***************************************************************************)
\* the collection names in use
Names == {"kb1"}
Queries == {"q1", "q2"}

\* Gemini's batch limit, the default batch_size of embed_texts
BatchSize == 100

Min(a, b) == IF a < b THEN a ELSE b

\* python {**a, **b}: the keys of b win
Merge(a, b) == b @@ a

EmptyDict == <<>>
EmptyString == <<>>

\* the separator of f"{chunk['text']}\n\nContext: {context_text}"
ContextSep == <<"<nl><nl>Context: ">>

NoVector == <<>>
EmptyCache == [q \in Queries |-> NoVector]
ZeroCounts == [input |-> 0, output |-> 0, cache_read |-> 0, cache_creation |-> 0]

\* the chunk texts of the document being loaded
Document == << <<"t1">>, <<"t2">> >>

\* the chunk lists handed to load_chunks: dictionaries with id and text,
\* the first n chunks of the document
ChunkInputs ==
    {[i \in 1..n |-> [id |-> i - 1, text |-> Document[i]]] :
        n \in 0..Len(Document)}

\* genai.embed_content on one document text
Embedding(t) ==
    LET base == IF t[1] = "t1" THEN <<1, 0>> ELSE <<0, 1>>
    IN  IF Len(t) > 1 THEN <<base[1] + 1, base[2] + 1>> ELSE base

\* genai.embed_content on a query
QueryEmbedding(q) == IF q = "q1" THEN <<1, 0>> ELSE <<1, 1>>

\* genai.embed_content on a batch: result['embedding']
EmbedContent(batch) == [j \in 1..Len(batch) |-> Embedding(batch[j])]

\* a batch that runs to the end of the list
BatchToEnd(texts, i, batch_size) == SubSeq(texts, i, Len(texts))

\* batch = texts[i:i + batch_size], i counted from 1
Batch(texts, i, batch_size) ==
    SubSeq(texts, i, Min(i + batch_size - 1, Len(texts)))

RECURSIVE EmbedBatches(_, _, _)
\* for i in range(0, len(texts), batch_size): embeddings.append(...)
EmbedBatches(texts, i, batch_size) ==
    IF i > Len(texts) THEN <<>>
    ELSE EmbedContent(Batch(texts, i, batch_size))
             \o EmbedBatches(texts, i + batch_size, batch_size)

\* embed_texts with the default batch_size, once the provider answers
embed_texts(texts) == EmbedBatches(texts, 1, BatchSize)

\* what the chat model may answer to one context call: an error, or a text
\* with its usage
ContextFailed == [ok |-> FALSE, text |-> EmptyString, usage |-> ZeroCounts]
ContextOutcomes ==
    {ContextFailed,
     [ok |-> TRUE, text |-> <<"c1">>,
      usage |-> [input |-> 2, output |-> 1, cache_read |-> 3, cache_creation |-> 4]]}

RECURSIVE IndexOf(_, _, _)
\* the first position >= from at which tok occurs in s, 0 when there is none
IndexOf(s, tok, from) ==
    IF from > Len(s) THEN 0
    ELSE IF s[from] = tok THEN from
    ELSE IndexOf(s, tok, from + 1)

\* re.search(label \s*(.+?)(?=stop|$), content, re.DOTALL): the group is
\* what follows the first label, at least one character of it, up to the
\* next stop label or the end; no match when the label is absent or is the
\* last thing of the content.  NoLabel as stop: the group runs to the end.
NoLabel == "$"
NoMatch == [found |-> FALSE, group |-> <<>>]
SearchSection(content, label, stop) ==
    LET p == IndexOf(content, label, 1)
        e == IndexOf(content, stop, p + 2)
    IN  IF p = 0 \/ p = Len(content) THEN NoMatch
        ELSE [found |-> TRUE,
              group |-> SubSeq(content, p + 1,
                               IF e = 0 THEN Len(content) ELSE e - 1)]

RECURSIVE SplitPipe(_, _)
\* [q.strip() for q in group.split('|')]; cur is the part being read
SplitPipe(s, cur) ==
    IF s = <<>> THEN <<cur>>
    ELSE IF Head(s) = "|" THEN <<cur>> \o SplitPipe(Tail(s), <<>>)
    ELSE SplitPipe(Tail(s), Append(cur, Head(s)))

\* the dictionary built from the three searches; no_summary is what the
\* summary is when its label is not found
ParseMetadata(content, no_summary) ==
    LET summary == SearchSection(content, "SUMMARY:", "QUESTIONS:")
        questions == SearchSection(content, "QUESTIONS:", "KEYWORDS:")
        keywords == SearchSection(content, "KEYWORDS:", NoLabel)
    IN  [summary |-> IF summary.found THEN summary.group ELSE no_summary,
         questions |-> IF questions.found THEN SplitPipe(questions.group, <<>>)
                       ELSE <<>>,
         keywords |-> IF keywords.found THEN SplitPipe(keywords.group, <<>>)
                      ELSE <<>>]

\* what the chat model may answer to one metadata call: an error, or a
\* text: the three sections, the sections without the last, or none
FullReply ==
    <<"SUMMARY:", "s", "QUESTIONS:", "q1", "|", "q2", "KEYWORDS:", "k1">>
MetadataFailed == [ok |-> FALSE, content |-> <<>>]
MetadataReplies ==
    {MetadataFailed} \cup
    {[ok |-> TRUE, content |-> c] :
        c \in {FullReply, SubSeq(FullReply, 1, 4), <<"x">>}}

\* what generate_chunk_metadata returns when the model answers with the
\* three sections ({} otherwise)
ParsedMetadata == ParseMetadata(FullReply, EmptyString)

\* ContextualVectorDB.generate_chunk_metadata, given the model's answer
generate_chunk_metadata(reply) ==
    IF ~anthropic_client THEN EmptyDict
    ELSE IF reply.ok THEN ParseMetadata(reply.content, EmptyString)
    ELSE EmptyDict

\* generate_chunk_context: the context text returned
generate_chunk_context(outcome) ==
    IF ~anthropic_client THEN EmptyString
    ELSE IF outcome.ok THEN outcome.text ELSE EmptyString

\* "with self.token_lock": the four counters after one context call
TrackUsage(counts, outcome) ==
    IF anthropic_client /\ outcome.ok
    THEN [input |-> counts.input + outcome.usage.input,
          output |-> counts.output + outcome.usage.output,
          cache_read |-> counts.cache_read + outcome.usage.cache_read,
          cache_creation |-> counts.cache_creation + outcome.usage.cache_creation]
    ELSE counts

RECURSIVE TrackAll(_, _, _)
\* the counters after the context calls of chunks i..n
TrackAll(counts, outcomes, i) ==
    IF i > Len(outcomes) THEN counts
    ELSE TrackAll(TrackUsage(counts, outcomes[i]), outcomes, i + 1)

\* process_chunk with the context contextualized_content forgets
ProcessChunkStaleText(chunk, context_text, chunk_metadata) ==
    [text_to_embed |-> IF context_text # EmptyString
                       THEN chunk.text \o ContextSep \o context_text
                       ELSE chunk.text,
     metadata |-> Merge(Merge(chunk,
                     [original_content |-> chunk.text,
                      context |-> context_text,
                      contextualized_content |-> chunk.text]),
                     chunk_metadata)]

\* process_chunk, given what the context call and the metadata call returned
ProcessChunk(chunk, context_text, chunk_metadata) ==
    LET contextualized_text ==
            IF context_text # EmptyString
            THEN chunk.text \o ContextSep \o context_text
            ELSE chunk.text
    IN  [text_to_embed |-> contextualized_text,
         metadata |-> Merge(Merge(chunk,
                         [original_content |-> chunk.text,
                          context |-> context_text,
                          contextualized_content |-> contextualized_text]),
                         chunk_metadata)]

\* PlainChunk that leaves the contextualized content empty
PlainChunkNoContent(chunk) ==
    [text_to_embed |-> chunk.text,
     metadata |-> Merge(chunk,
                     [original_content |-> chunk.text,
                      context |-> EmptyString,
                      contextualized_content |-> EmptyString])]

\* the else branch of load_chunks: no context generation
PlainChunk(chunk) ==
    [text_to_embed |-> chunk.text,
     metadata |-> Merge(chunk,
                     [original_content |-> chunk.text,
                      context |-> EmptyString,
                      contextualized_content |-> chunk.text])]

Perms(n) == {p \in [1..n -> 1..n] : \A a, b \in 1..n : p[a] = p[b] => a = b}

(***************************************************************************)
(* Persistence: the snapshot file is the pickle stream of the data dict,   *)
(* the dict and a final STOP.  A write that fails after open("wb") has     *)
(* truncated the file leaves a strict prefix of the stream; every strict   *)
(* prefix is one that pickle.load rejects, and the model keeps the         *)
(* shortest, the empty file.                                               *)
(***************************************************************************)
NoFile == [exists |-> FALSE, bytes |-> <<>>]
StopItem == <<"STOP", <<>>>>

\* save_db's data dict without the query cache
SnapshotDataNoCache(e, m, qc, tc) ==
    [embeddings |-> e, metadata |-> m, query_cache |-> EmptyCache,
     token_counts |-> tc]

\* the data dict of save_db
SnapshotData(e, m, qc, tc) ==
    [embeddings |-> e, metadata |-> m, query_cache |-> qc, token_counts |-> tc]

\* pickle.dump(data, f): the dict, then the STOP opcode
Pickle(data) == << <<"DICT", data>>, StopItem >>

\* how the write of save_db may end: completed; failed in makedirs or open
\* (nothing written); failed in dump, after open truncated the file
WriteOutcomes == {"ok", "no_open", "partial"}

\* what is left of a stream whose write failed
Truncated(stream) == SubSeq(stream, 1, 0)

\* the file at db_path after save_db
WriteFile(old, data, outcome) ==
    CASE outcome = "ok" -> [exists |-> TRUE, bytes |-> Pickle(data)]
      [] outcome = "no_open" -> old
      [] OTHER -> [exists |-> TRUE, bytes |-> Truncated(Pickle(data))]

\* pickle.load succeeds only on a complete stream
Readable(file) ==
    /\ file.bytes # <<>>
    /\ file.bytes[Len(file.bytes)][1] = "STOP"

\* pickle.load(f) of a complete stream
Unpickle(bytes) == bytes[1][2]

\* data.get(key, default)
DataGet(data, key, default) ==
    IF key \in DOMAIN data THEN data[key] ELSE default

\* the four assignments of load_db
LoadedState(data, counts) ==
    <<DataGet(data, "embeddings", <<>>),
      DataGet(data, "metadata", <<>>),
      DataGet(data, "query_cache", EmptyCache),
      DataGet(data, "token_counts", counts)>>

NoSnapshot == [saved |-> FALSE, state |-> <<>>]

\* the history of completed snapshots after a write
Completed(n, state, outcome) ==
    IF outcome = "ok"
    THEN [valid EXCEPT ![n] = [saved |-> TRUE, state |-> state]]
    ELSE valid

(***************************************************************************)
(* search                                                                  *)
(***************************************************************************)
Dot(u, v) == u[1] * v[1] + u[2] * v[2]

\* np.dot(self.embeddings, query_embedding)
Similarities(embs, qv) == [i \in 1..Len(embs) |-> Dot(embs[i], qv)]

\* np.argsort(similarities): an ascending order of the indices; the default
\* sort kind is not stable, so equal values may come in any order
ArgSorts(sims) ==
    {p \in Perms(Len(sims)) :
        \A a, b \in 1..Len(sims) : a < b => sims[p[a]] <= sims[p[b]]}

Reverse(s) == [j \in 1..Len(s) |-> s[Len(s) + 1 - j]]

\* top indices taken without reversing the ascending order
TopIndicesAscending(order, k) == SubSeq(order, 1, Min(k, Len(order)))

\* np.argsort(similarities)[::-1][:k]
TopIndices(order, k) == SubSeq(Reverse(order), 1, Min(k, Len(order)))

\* a cache that keeps the last query only
CachedAlone(cache, query, vec) == [EmptyCache EXCEPT ![query] = vec]

\* self.query_cache[query] = query_embedding
Cached(cache, query, vec) == [cache EXCEPT ![query] = vec]

\* the results list built from top_indices
SearchResults(top, sims) ==
    [j \in 1..Len(top) |->
        [metadata |-> metadata[top[j]], similarity |-> sims[top[j]]]]

(***************************************************************************)
(* rerank_results and hybrid_search                                        *)
(***************************************************************************)
\* results[:top_n], top_n >= 0
FirstN(results, top_n) == SubSeq(results, 1, Min(top_n, Len(results)))

\* the documents handed to the reranker: the contextualized content of each
\* result, its original content when there is none
RerankDocuments(results) ==
    [j \in 1..Len(results) |->
        DataGet(results[j].metadata, "contextualized_content",
                results[j].metadata.original_content)]

\* what cohere_client.rerank may answer for d documents: an error, or
\* min(top_n, d) distinct indices in its order of relevance, each with a
\* score
RerankFailed == [ok |-> FALSE, items |-> <<>>]
RerankAnswers(d, top_n) ==
    LET m == Min(top_n, d)
    IN  {RerankFailed} \cup
        {[ok |-> TRUE,
          items |-> [j \in 1..m |->
                        [index |-> p[j], relevance_score |-> m - j + 1]]] :
            p \in {f \in [1..m -> 1..d] :
                       \A a, b \in 1..m : f[a] = f[b] => a = b}}

\* the loop over response.results: each picked result with its score
Reranked(results, items) ==
    [j \in 1..Len(items) |->
        Merge(results[items[j].index],
              [rerank_score |-> items[j].relevance_score])]

\* rerank_results whose fallback forgets the slice
RerankResultsUnsliced(results, top_n, answer) ==
    IF ~cohere_client THEN results
    ELSE IF answer.ok THEN Reranked(results, answer.items)
    ELSE FirstN(results, top_n)

\* the list rerank_results returns, given the backend's answer
rerank_results(results, top_n, answer) ==
    IF ~cohere_client THEN FirstN(results, top_n)
    ELSE IF answer.ok THEN Reranked(results, answer.items)
    ELSE FirstN(results, top_n)

\* initial_k that never widens the candidate list
InitialKNoWiden(k, rerank) == k

\* initial_k = k * 3 if rerank else k
InitialK(k, rerank) == IF rerank THEN k * 3 ELSE k

(***************************************************************************)
(* The operations of a store.  ret records what the call returned or which *)
(* exception left it.                                                      *)
(***************************************************************************)
ChunkerIdle ==
    /\ strategy = "manual" /\ text = <<>> /\ segments = <<>>
    /\ max_tokens = 1 /\ overlap_tokens = 0 /\ pos = 1 /\ chunks = <<>>
    /\ current_chunk = <<>> /\ current_tokens = 0 /\ chunk_id = 0
    /\ seeded = 0 /\ cpc = "done"

\* no load_chunks is being followed thread by thread
PoolIdle ==
    /\ lc_chunks = <<>>
    /\ lc_args = [generate_context |-> FALSE, generate_metadata |-> FALSE,
                  parallel_threads |-> 1]
    /\ mpc = "idle" /\ task = <<>> /\ token_lock = 0
    /\ lc_texts = <<>> /\ lc_metadata = <<>> /\ yielded = {}
    /\ counts0 = ZeroCounts
    /\ store0 = <<<<>>, <<>>>>

\* no process_content is running
ProcessIdle ==
    /\ cp_client = FALSE
    /\ cp_args = [generate_context |-> FALSE, generate_metadata |-> FALSE]
    /\ cp_counts = ZeroCounts
    /\ ppc = "idle" /\ pidx = 1
    /\ plog = [context |-> <<>>, metadata |-> <<>>, counts0 |-> ZeroCounts,
               chunked |-> <<>>]

\* no embed_texts is being followed batch by batch
EmbedIdle ==
    /\ et_texts = <<>> /\ et_batch_size = BatchSize /\ et_i = 1
    /\ et_embeddings = <<>> /\ et_sent = <<>> /\ epc = "idle"

\* __init__, but for the Cohere key
Constructed ==
    /\ name \in Names
    /\ embedding_model \in BOOLEAN
    /\ anthropic_client \in BOOLEAN
    /\ embeddings = <<>>
    /\ metadata = <<>>
    /\ query_cache = EmptyCache
    /\ token_counts = ZeroCounts
    /\ disk = [n \in Names |-> NoFile]
    /\ ret = [op |-> "init", status |-> "ok"]
    /\ valid = [n \in Names |-> NoSnapshot]
    /\ ncalls = 0
    /\ ChunkerIdle /\ PoolIdle /\ ProcessIdle /\ EmbedIdle

\* __init__.  No operation of Spec reads cohere_client: it is left unset
\* here, and SpecRetrieval covers both cases.
Init == Constructed /\ cohere_client = FALSE

\* a store no call is made on
StoreIdle ==
    /\ name = "kb1" /\ embedding_model = FALSE /\ anthropic_client = FALSE
    /\ cohere_client = FALSE
    /\ embeddings = <<>> /\ metadata = <<>> /\ query_cache = EmptyCache
    /\ token_counts = ZeroCounts /\ disk = [n \in Names |-> NoFile]
    /\ ret = [op |-> "init", status |-> "ok"]
    /\ valid = [n \in Names |-> NoSnapshot] /\ ncalls = 0

\* a fresh instance, ContextualVectorDB(name): the keys are those of the
\* environment, the same for every instance
New(n) ==
    /\ name' = n
    /\ embeddings' = <<>>
    /\ metadata' = <<>>
    /\ query_cache' = EmptyCache
    /\ token_counts' = ZeroCounts
    /\ ret' = [op |-> "init", status |-> "ok"]
    /\ UNCHANGED <<embedding_model, anthropic_client, cohere_client, disk, valid, ncalls,
                   chunkerVars, poolVars, procVars, embedVars>>

\* load_chunks(chunks, doc_content, parallel_threads, generate_context,
\* generate_metadata).  outcomes and mdouts are what the chat model answers
\* for each chunk, order the order in which as_completed yields the
\* futures, embed_ok whether the embedding provider answers, write how the
\* write of save_db ends.
LoadChunks(chunks_in, generate_context, generate_metadata, outcomes, mdouts, order, embed_ok, write) ==
    /\ ncalls < MaxCalls
    /\ LET n == Len(chunks_in)
           contextual == generate_context /\ anthropic_client
           results ==
               [i \in 1..n |->
                   IF contextual
                   THEN ProcessChunk(chunks_in[i],
                            generate_chunk_context(outcomes[i]),
                            IF generate_metadata THEN mdouts[i] ELSE EmptyDict)
                   ELSE PlainChunk(chunks_in[i])]
           texts_to_embed == [j \in 1..n |-> results[order[j]].text_to_embed]
           local_metadata == [j \in 1..n |-> results[order[j]].metadata]
           counts == IF contextual THEN TrackAll(token_counts, outcomes, 1)
                     ELSE token_counts
           new_embeddings == embed_texts(texts_to_embed)
           \* what the call did, whatever its end: the flag it was given
           \* and the context calls its workers made
           did == [op |-> "load_chunks", generate_context |-> generate_context,
                   chat_calls |-> IF contextual THEN n ELSE 0]
       IN  /\ counts.output <= MaxContextCalls
           /\ token_counts' = counts
           /\ IF ~embedding_model
              THEN /\ ret' = did @@ [status |-> "config_error"]
                   /\ UNCHANGED <<embeddings, metadata, disk, valid>>
              ELSE IF ~embed_ok
              THEN /\ ret' = did @@ [status |-> "embed_error"]
                   /\ UNCHANGED <<embeddings, metadata, disk, valid>>
              ELSE /\ embeddings' = new_embeddings
                   /\ metadata' = local_metadata
                   /\ disk' = [disk EXCEPT ![name] =
                                  WriteFile(@, SnapshotData(new_embeddings,
                                      local_metadata, query_cache, counts), write)]
                   /\ valid' = Completed(name, <<new_embeddings, local_metadata,
                                                 query_cache, counts>>, write)
                   /\ ret' = did @@ [status |-> IF write = "ok" THEN "ok"
                                                 ELSE "save_error"]
    /\ ncalls' = ncalls + 1
    /\ UNCHANGED <<name, embedding_model, anthropic_client, cohere_client, query_cache,
                   chunkerVars, poolVars, procVars, embedVars>>

\* search(query, k).  embed_ok: whether the provider answers the query
\* embedding; order: the order np.argsort gives.
Search(query, k, embed_ok, order) ==
    /\ ncalls < MaxCalls
    /\ LET cached == query_cache[query] # NoVector
           query_embedding == IF cached THEN query_cache[query]
                              ELSE QueryEmbedding(query)
           similarities == Similarities(embeddings, query_embedding)
           top_indices == TopIndices(order, k)
       IN  IF embeddings = <<>>
           THEN /\ ret' = [op |-> "search", status |-> "no_data"]
                /\ UNCHANGED query_cache
           ELSE IF ~cached /\ ~(embedding_model /\ embed_ok)
           THEN /\ ret' = [op |-> "search", status |-> "embed_error"]
                /\ UNCHANGED query_cache
           ELSE /\ order \in ArgSorts(similarities)
                /\ query_cache' = Cached(query_cache, query, query_embedding)
                /\ ret' = [op |-> "search", status |-> "ok", query |-> query,
                           k |-> k, query_embedding |-> query_embedding,
                           embed_calls |-> IF cached THEN 0 ELSE 1,
                           top_indices |-> top_indices,
                           results |-> SearchResults(top_indices, similarities)]
    /\ ncalls' = ncalls + 1
    /\ UNCHANGED <<name, embedding_model, anthropic_client, cohere_client, embeddings,
                   metadata, token_counts, disk, valid, chunkerVars, poolVars, procVars, embedVars>>

\* save_db()
SaveDb(write) ==
    /\ ncalls < MaxCalls
    /\ disk' = [disk EXCEPT ![name] =
                   WriteFile(@, SnapshotData(embeddings, metadata, query_cache,
                                             token_counts), write)]
    /\ valid' = Completed(name, storeState, write)
    /\ ret' = [op |-> "save_db",
               status |-> IF write = "ok" THEN "ok" ELSE "save_error"]
    /\ ncalls' = ncalls + 1
    /\ UNCHANGED <<name, embedding_model, anthropic_client, cohere_client, embeddings,
                   metadata, query_cache, token_counts, chunkerVars, poolVars, procVars, embedVars>>

\* the queries in self.query_cache
CachedQueries == {q \in Queries : query_cache[q] # NoVector}

\* the state of a store right after __init__
FreshState == <<<<>>, <<>>, EmptyCache, ZeroCounts>>

\* load_db() that resets the store before it looks for the file
LoadDbClearsFirst ==
    /\ LET file == disk[name]
           loaded == LoadedState(Unpickle(file.bytes), token_counts)
       IN  IF ~file.exists \/ ~Readable(file)
           THEN /\ ret' = [op |-> "load_db", fresh |-> storeState = FreshState,
                           status |-> IF file.exists THEN "unpickle_error"
                                      ELSE "not_found"]
                /\ embeddings' = <<>>
                /\ metadata' = <<>>
                /\ query_cache' = EmptyCache
                /\ UNCHANGED token_counts
           ELSE /\ embeddings' = loaded[1]
                /\ metadata' = loaded[2]
                /\ query_cache' = loaded[3]
                /\ token_counts' = loaded[4]
                /\ ret' = [op |-> "load_db", status |-> "ok",
                           fresh |-> storeState = FreshState]
    /\ UNCHANGED <<name, embedding_model, anthropic_client, cohere_client, disk, valid,
                   ncalls, chunkerVars, poolVars, procVars, embedVars>>

\* load_db().  ret.fresh records whether the instance was as constructed
\* when the call was made, ret.cached the queries its cache held.
LoadDb ==
    /\ LET file == disk[name]
           loaded == LoadedState(Unpickle(file.bytes), token_counts)
       IN  IF ~file.exists
           THEN /\ ret' = [op |-> "load_db", status |-> "not_found",
                           fresh |-> storeState = FreshState]
                /\ UNCHANGED storeState
           ELSE IF ~Readable(file)
           THEN /\ ret' = [op |-> "load_db", status |-> "unpickle_error",
                           fresh |-> storeState = FreshState]
                /\ UNCHANGED storeState
           ELSE /\ embeddings' = loaded[1]
                /\ metadata' = loaded[2]
                /\ query_cache' = loaded[3]
                /\ token_counts' = loaded[4]
                /\ ret' = [op |-> "load_db", status |-> "ok",
                           fresh |-> storeState = FreshState,
                           cached |-> CachedQueries]
    /\ UNCHANGED <<name, embedding_model, anthropic_client, cohere_client, disk, valid,
                   ncalls, chunkerVars, poolVars, procVars, embedVars>>

\* rerank_results(query, results, top_n) on the results of the search just
\* made.  answer: what the rerank backend answers, when it is asked.
RerankResults(top_n, answer) ==
    /\ ncalls < MaxCalls
    /\ ret.op = "search" /\ ret.status = "ok"
    /\ LET results == ret.results
       IN  ret' = [op |-> "rerank_results", status |-> "ok",
                   input |-> results, top_n |-> top_n,
                   documents |-> IF cohere_client THEN RerankDocuments(results)
                                 ELSE <<>>,
                   rerank_calls |-> IF cohere_client THEN 1 ELSE 0,
                   rerank_failed |-> cohere_client /\ ~answer.ok,
                   results |-> rerank_results(results, top_n, answer)]
    /\ ncalls' = ncalls + 1
    /\ UNCHANGED <<name, embedding_model, anthropic_client, cohere_client,
                   embeddings, metadata, query_cache, token_counts, disk,
                   valid, chunkerVars, poolVars, procVars, embedVars>>

\* hybrid_search(query, k, rerank): search for initial_k candidates, then
\* rerank them or cut them to k
HybridSearch(query, k, rerank, embed_ok, order, answer) ==
    /\ ncalls < MaxCalls
    /\ LET initial_k == InitialK(k, rerank)
           cached == query_cache[query] # NoVector
           query_embedding == IF cached THEN query_cache[query]
                              ELSE QueryEmbedding(query)
           similarities == Similarities(embeddings, query_embedding)
           top_indices == TopIndices(order, initial_k)
           candidates == SearchResults(top_indices, similarities)
           reranking == rerank /\ cohere_client
       IN  IF embeddings = <<>>
           THEN /\ ret' = [op |-> "hybrid_search", status |-> "no_data"]
                /\ UNCHANGED query_cache
           ELSE IF ~cached /\ ~(embedding_model /\ embed_ok)
           THEN /\ ret' = [op |-> "hybrid_search", status |-> "embed_error"]
                /\ UNCHANGED query_cache
           ELSE /\ order \in ArgSorts(similarities)
                /\ query_cache' = Cached(query_cache, query, query_embedding)
                /\ ret' = [op |-> "hybrid_search", status |-> "ok",
                           query |-> query, k |-> k, rerank |-> rerank,
                           initial_k |-> initial_k,
                           candidates |-> candidates,
                           rerank_calls |-> IF reranking THEN 1 ELSE 0,
                           rerank_failed |-> reranking /\ ~answer.ok,
                           picks |-> IF reranking THEN answer.items ELSE <<>>,
                           results |-> IF reranking
                                       THEN rerank_results(candidates, k, answer)
                                       ELSE FirstN(candidates, k)]
    /\ ncalls' = ncalls + 1
    /\ UNCHANGED <<name, embedding_model, anthropic_client, cohere_client,
                   embeddings, metadata, token_counts, disk, valid,
                   chunkerVars, poolVars, procVars, embedVars>>

\* the orders np.argsort may give for a search of query q, when the search
\* gets that far
SearchOrders(q, eok) ==
    IF embeddings # <<>>
       /\ (query_cache[q] # NoVector \/ (embedding_model /\ eok))
    THEN ArgSorts(Similarities(embeddings,
             IF query_cache[q] # NoVector THEN query_cache[q]
             ELSE QueryEmbedding(q)))
    ELSE {<<>>}

\* the answers the chat model may give to the calls of one load_chunks
ContextAnswers(n, contextual) ==
    IF contextual THEN [1..n -> ContextOutcomes]
    ELSE {[i \in 1..n |-> ContextFailed]}

\* the metadata calls of one load_chunks all answer; a call that fails
\* returns {}, which is what the chunk gets without generate_metadata
MetadataAnswers(n, wanted) ==
    IF wanted THEN {[i \in 1..n |-> ParsedMetadata]}
    ELSE {[i \in 1..n |-> EmptyDict]}

\* the orders in which as_completed may yield n futures; the plain loop
\* keeps the order of the input
CompletionOrders(n, contextual) ==
    IF contextual THEN Perms(n) ELSE {Positions(n)}

\* load_chunks of the chunks c with every flag and every answer of the
\* providers
LoadChunksOf(c) ==
    \E gc, gm \in BOOLEAN :
        \E outs \in ContextAnswers(Len(c), gc /\ anthropic_client),
           mds \in MetadataAnswers(Len(c), gc /\ anthropic_client /\ gm),
           ord \in CompletionOrders(Len(c), gc /\ anthropic_client),
           eok \in (IF embedding_model /\ Len(c) > 0 THEN BOOLEAN
                   ELSE {TRUE}) :
            \E w \in (IF embedding_model /\ eok THEN WriteOutcomes
                      ELSE {"ok"}) :
                LoadChunks(c, gc, gm, outs, mds, ord, eok, w)

\* load_chunks with every argument and every answer of the providers
LoadChunksCall == \E c \in ChunkInputs : LoadChunksOf(c)

SearchCall ==
    \E q \in Queries, k \in 0..MaxK, eok \in BOOLEAN :
        \E ord \in SearchOrders(q, eok) : Search(q, k, eok, ord)

RerankResultsCall ==
    \E top_n \in 0..MaxK :
        \E ans \in (IF cohere_client /\ ret.op = "search" /\ ret.status = "ok"
                    THEN RerankAnswers(Len(ret.results), top_n)
                    ELSE {RerankFailed}) :
            RerankResults(top_n, ans)

HybridSearchCall ==
    \E q \in Queries, k \in 0..MaxK, rr, eok \in BOOLEAN :
        \E ord \in SearchOrders(q, eok) :
            \E ans \in (IF rr /\ cohere_client
                        THEN RerankAnswers(Min(InitialK(k, rr), Len(ord)), k)
                        ELSE {RerankFailed}) :
                HybridSearch(q, k, rr, eok, ord, ans)

Next ==
    \/ \E n \in Names : New(n)
    \/ LoadChunksCall
    \/ SearchCall
    \/ \E w \in WriteOutcomes : SaveDb(w)
    \/ LoadDb

Spec == Init /\ [][Next]_vars

(***************************************************************************)
(* Retrieval: a store is loaded and then queried, with and without a       *)
(* reranker.                                                               *)
(***************************************************************************)
InitRetrieval == Constructed /\ cohere_client \in BOOLEAN

NextRetrieval ==
    \/ LoadChunksCall
    \/ SearchCall
    \/ RerankResultsCall
    \/ HybridSearchCall

SpecRetrieval == InitRetrieval /\ [][NextRetrieval]_vars

(***************************************************************************)
(* load_chunks thread by thread.  The calling thread submits one future    *)
(* per chunk to a pool of parallel_threads workers and collects them with  *)
(* as_completed; each future runs process_chunk: the context call, the     *)
(* update of the four counters under token_lock (each += a read and a      *)
(* write), the metadata call.                                              *)
(*   mpc:  "start" -> "collect" -> "embed" -> "save" -> "returned", or     *)
(*         "raised" from "embed" and "save"                                *)
(*   task[i].pc: "queued" -> "call" -> "lock" -> ("read" -> "write")*4 ->  *)
(*         "unlock" -> "md_call" -> "done"                                 *)
(***************************************************************************)
\* the counters in the order generate_chunk_context updates them
CounterKeys == <<"input", "output", "cache_read", "cache_creation">>

\* the counters a store may hold when load_chunks is called: those of a
\* new store, or of one whose earlier load made a context call
PriorCounts == {ZeroCounts} \cup {o.usage : o \in ContextOutcomes}

\* if generate_context and self.anthropic_client
Contextual == lc_args.generate_context /\ anthropic_client

\* the futures a worker is running
Running == {i \in DOMAIN task : task[i].pc \notin {"queued", "done"}}

\* a future as submitted
Submitted ==
    [pc |-> "queued", answer |-> ContextFailed, idx |-> 1, tmp |-> 0,
     reply |-> MetadataFailed, md |-> EmptyDict]

\* where process_chunk goes once it has its context
AfterContext == IF lc_args.generate_metadata THEN "md_call" ELSE "done"

\* AfterCall without the except branch: the exception ends the future
AfterCallRaises(outcome) == IF outcome.ok THEN "lock" ELSE "raised"

\* where generate_chunk_context goes when messages.create returns: to the
\* token tracking, or through the except branch
AfterCall(outcome) == IF outcome.ok THEN "lock" ELSE AfterContext

\* a lock that lets every thread in
LockIgnored == TRUE

\* token_lock can be taken
LockFree == token_lock = 0

\* what process_chunk of future i returns
TaskResult(i) ==
    ProcessChunk(lc_chunks[i], generate_chunk_context(task[i].answer),
                 task[i].md)

\* what the call did, whatever its end
LoadDid ==
    [op |-> "load_chunks", generate_context |-> lc_args.generate_context,
     chat_calls |-> IF Contextual THEN Len(lc_chunks) ELSE 0]

\* the calling thread submits every chunk to the executor
SubmitAll ==
    /\ mpc = "start" /\ Contextual
    /\ task' = [i \in 1..Len(lc_chunks) |-> Submitted]
    /\ mpc' = IF lc_chunks = <<>> THEN "embed" ELSE "collect"
    /\ UNCHANGED <<lc_chunks, lc_args, token_lock, lc_texts, lc_metadata,
                   yielded, counts0, store0, storeVars, chunkerVars, procVars, embedVars>>

\* the else branch: the plain loop over the chunks
PlainLoop ==
    /\ mpc = "start" /\ ~Contextual
    /\ lc_texts' = [i \in 1..Len(lc_chunks) |->
                        PlainChunk(lc_chunks[i]).text_to_embed]
    /\ lc_metadata' = [i \in 1..Len(lc_chunks) |->
                           PlainChunk(lc_chunks[i]).metadata]
    /\ mpc' = "embed"
    /\ UNCHANGED <<lc_chunks, lc_args, task, token_lock, yielded, counts0, store0,
                   storeVars, chunkerVars, procVars, embedVars>>

\* a worker of the pool takes the next queued future and enters
\* messages.create
TaskStart(i) ==
    /\ mpc = "collect"
    /\ task[i].pc = "queued"
    /\ \A j \in 1..(i - 1) : task[j].pc # "queued"
    /\ Cardinality(Running) < lc_args.parallel_threads
    /\ task' = [task EXCEPT ![i].pc = "call"]
    /\ UNCHANGED <<lc_chunks, lc_args, mpc, token_lock, lc_texts, lc_metadata,
                   yielded, counts0, store0, storeVars, chunkerVars, procVars, embedVars>>

\* messages.create returns or raises
ContextReturn(i, outcome) ==
    /\ task[i].pc = "call"
    /\ task' = [task EXCEPT ![i].answer = outcome,
                            ![i].pc = AfterCall(outcome)]
    /\ UNCHANGED <<lc_chunks, lc_args, mpc, token_lock, lc_texts, lc_metadata,
                   yielded, counts0, store0, storeVars, chunkerVars, procVars, embedVars>>

\* with self.token_lock
Acquire(i) ==
    /\ task[i].pc = "lock"
    /\ LockFree
    /\ token_lock' = i
    /\ task' = [task EXCEPT ![i].pc = "read", ![i].idx = 1]
    /\ UNCHANGED <<lc_chunks, lc_args, mpc, lc_texts, lc_metadata, yielded,
                   counts0, store0, storeVars, chunkerVars, procVars, embedVars>>

\* self.token_counts[key] += ..., the read
ReadCounter(i) ==
    /\ task[i].pc = "read"
    /\ task' = [task EXCEPT ![i].tmp = token_counts[CounterKeys[task[i].idx]],
                            ![i].pc = "write"]
    /\ UNCHANGED <<lc_chunks, lc_args, mpc, token_lock, lc_texts, lc_metadata,
                   yielded, counts0, store0, storeVars, chunkerVars, procVars, embedVars>>

\* self.token_counts[key] += ..., the write
WriteCounter(i) ==
    /\ task[i].pc = "write"
    /\ LET key == CounterKeys[task[i].idx]
       IN  token_counts' = [token_counts EXCEPT
                               ![key] = task[i].tmp + task[i].answer.usage[key]]
    /\ task' = IF task[i].idx = Len(CounterKeys)
               THEN [task EXCEPT ![i].pc = "unlock"]
               ELSE [task EXCEPT ![i].pc = "read", ![i].idx = @ + 1]
    /\ UNCHANGED <<lc_chunks, lc_args, mpc, token_lock, lc_texts, lc_metadata,
                   yielded, counts0, store0, name, embedding_model, anthropic_client,
                   cohere_client, embeddings, metadata, query_cache, disk,
                   ret, valid, ncalls, chunkerVars, procVars, embedVars>>

\* the end of the with block
Release(i) ==
    /\ task[i].pc = "unlock"
    /\ token_lock' = 0
    /\ task' = [task EXCEPT ![i].pc = AfterContext]
    /\ UNCHANGED <<lc_chunks, lc_args, mpc, lc_texts, lc_metadata, yielded,
                   counts0, store0, storeVars, chunkerVars, procVars, embedVars>>

\* generate_chunk_metadata returns
MetadataReturn(i, reply) ==
    /\ task[i].pc = "md_call"
    /\ task' = [task EXCEPT ![i].reply = reply,
                            ![i].md = generate_chunk_metadata(reply),
                            ![i].pc = "done"]
    /\ UNCHANGED <<lc_chunks, lc_args, mpc, token_lock, lc_texts, lc_metadata,
                   yielded, counts0, store0, storeVars, chunkerVars, procVars, embedVars>>

\* Collect that appends each result to the store's own sequences
CollectIntoStore(i) ==
    /\ mpc = "collect"
    /\ task[i].pc = "done" /\ i \notin yielded
    /\ lc_texts' = Append(lc_texts, TaskResult(i).text_to_embed)
    /\ lc_metadata' = Append(lc_metadata, TaskResult(i).metadata)
    /\ metadata' = Append(metadata, TaskResult(i).metadata)
    /\ yielded' = yielded \cup {i}
    /\ mpc' = IF yielded' = DOMAIN task THEN "embed" ELSE "collect"
    /\ UNCHANGED <<lc_chunks, lc_args, task, token_lock, counts0, store0, name,
                   embedding_model, anthropic_client, cohere_client,
                   embeddings, query_cache, token_counts, disk, ret, valid,
                   ncalls, chunkerVars, procVars, embedVars>>

\* one round of "for future in as_completed(futures)"
Collect(i) ==
    /\ mpc = "collect"
    /\ task[i].pc = "done" /\ i \notin yielded
    /\ lc_texts' = Append(lc_texts, TaskResult(i).text_to_embed)
    /\ lc_metadata' = Append(lc_metadata, TaskResult(i).metadata)
    /\ yielded' = yielded \cup {i}
    /\ mpc' = IF yielded' = DOMAIN task THEN "embed" ELSE "collect"
    /\ UNCHANGED <<lc_chunks, lc_args, task, token_lock, counts0, store0, storeVars,
                   chunkerVars, procVars, embedVars>>

\* an assignment that appends to what the store holds
AssignStoreAppends(old, new) == old \o new

\* self.embeddings = embeddings, self.metadata = metadata: what the store
\* holds after the assignment of new to an attribute that held old
AssignStore(old, new) == new

\* EmbedAll that assigns the metadata before it embeds
EmbedAllAssignsFirst(embed_ok) ==
    /\ mpc = "embed"
    /\ metadata' = lc_metadata
    /\ IF ~embedding_model
       THEN /\ ret' = LoadDid @@ [status |-> "config_error"]
            /\ mpc' = "raised"
            /\ UNCHANGED embeddings
       ELSE IF ~embed_ok
       THEN /\ ret' = LoadDid @@ [status |-> "embed_error"]
            /\ mpc' = "raised"
            /\ UNCHANGED embeddings
       ELSE /\ embeddings' = embed_texts(lc_texts)
            /\ mpc' = "save"
            /\ UNCHANGED ret
    /\ UNCHANGED <<lc_chunks, lc_args, task, token_lock, lc_texts, lc_metadata,
                   yielded, counts0, store0, name, embedding_model,
                   anthropic_client, cohere_client, query_cache, token_counts,
                   disk, valid, ncalls, chunkerVars, procVars, embedVars>>

\* embeddings = self.embed_texts(texts_to_embed) and the two assignments
EmbedAll(embed_ok) ==
    /\ mpc = "embed"
    /\ IF ~embedding_model
       THEN /\ ret' = LoadDid @@ [status |-> "config_error"]
            /\ mpc' = "raised"
            /\ UNCHANGED <<embeddings, metadata>>
       ELSE IF ~embed_ok
       THEN /\ ret' = LoadDid @@ [status |-> "embed_error"]
            /\ mpc' = "raised"
            /\ UNCHANGED <<embeddings, metadata>>
       ELSE /\ embeddings' = AssignStore(embeddings, embed_texts(lc_texts))
            /\ metadata' = AssignStore(metadata, lc_metadata)
            /\ mpc' = "save"
            /\ UNCHANGED ret
    /\ UNCHANGED <<lc_chunks, lc_args, task, token_lock, lc_texts, lc_metadata,
                   yielded, counts0, store0, name, embedding_model, anthropic_client,
                   cohere_client, query_cache, token_counts, disk, valid,
                   ncalls, chunkerVars, procVars, embedVars>>

\* self.save_db() and the return
SaveAll(write) ==
    /\ mpc = "save"
    /\ disk' = [disk EXCEPT ![name] =
                   WriteFile(@, SnapshotData(embeddings, metadata, query_cache,
                                             token_counts), write)]
    /\ valid' = Completed(name, storeState, write)
    /\ ret' = LoadDid @@ [status |-> IF write = "ok" THEN "ok"
                                     ELSE "save_error"]
    /\ mpc' = IF write = "ok" THEN "returned" ELSE "raised"
    /\ UNCHANGED <<lc_chunks, lc_args, task, token_lock, lc_texts, lc_metadata,
                   yielded, counts0, store0, name, embedding_model, anthropic_client,
                   cohere_client, embeddings, metadata, query_cache,
                   token_counts, ncalls, chunkerVars, procVars, embedVars>>

\* what an earlier load_chunks of one chunk, without context generation,
\* has left in the store
PriorRecord == PlainChunk([id |-> 0, text |-> Document[1]])

\* a store about to run load_chunks: a new one, or one that holds the
\* record of an earlier load_chunks and has its snapshot on disk
InitLoad ==
    /\ name \in Names
    /\ embedding_model \in BOOLEAN
    /\ anthropic_client \in BOOLEAN
    /\ cohere_client = FALSE
    /\ query_cache = EmptyCache
    /\ token_counts \in (IF anthropic_client THEN PriorCounts ELSE {ZeroCounts})
    /\ \E prior \in (IF embedding_model THEN BOOLEAN ELSE {FALSE}) :
           /\ embeddings = IF prior
                            THEN embed_texts(<<PriorRecord.text_to_embed>>)
                            ELSE <<>>
           /\ metadata = IF prior THEN <<PriorRecord.metadata>> ELSE <<>>
           /\ disk = [n \in Names |->
                         IF prior /\ n = name
                         THEN WriteFile(NoFile, SnapshotData(embeddings, metadata,
                                  query_cache, token_counts), "ok")
                         ELSE NoFile]
           /\ valid = [n \in Names |->
                          IF prior /\ n = name
                          THEN [saved |-> TRUE, state |-> storeState]
                          ELSE NoSnapshot]
    /\ ret = [op |-> "init", status |-> "ok"]
    /\ ncalls = 0
    /\ lc_chunks \in ChunkInputs
    /\ lc_args \in [generate_context : BOOLEAN, generate_metadata : BOOLEAN,
                     parallel_threads : 1..MaxThreads]
    /\ mpc = "start" /\ task = <<>> /\ token_lock = 0
    /\ lc_texts = <<>> /\ lc_metadata = <<>> /\ yielded = {}
    /\ counts0 = token_counts
    /\ store0 = <<embeddings, metadata>>
    /\ ChunkerIdle /\ ProcessIdle /\ EmbedIdle

NextLoad ==
    \/ SubmitAll
    \/ PlainLoop
    \/ \E i \in DOMAIN task : TaskStart(i)
    \/ \E i \in DOMAIN task, o \in ContextOutcomes : ContextReturn(i, o)
    \/ \E i \in DOMAIN task : Acquire(i)
    \/ \E i \in DOMAIN task : ReadCounter(i)
    \/ \E i \in DOMAIN task : WriteCounter(i)
    \/ \E i \in DOMAIN task : Release(i)
    \/ \E i \in DOMAIN task, r \in MetadataReplies : MetadataReturn(i, r)
    \/ \E i \in DOMAIN task : Collect(i)
    \/ \E eok \in (IF embedding_model /\ lc_texts # <<>> THEN BOOLEAN
                    ELSE {TRUE}) : EmbedAll(eok)
    \/ \E w \in WriteOutcomes : SaveAll(w)

(***************************************************************************)
(* ContentProcessor.process_content: the chunking call, then one context   *)
(* call per chunk and one metadata call per chunk, in the calling thread.  *)
(*   ppc: "chunking" -> "context" -> "metadata" -> "returned"              *)
(***************************************************************************)
\* the context strings generate_contextual_embedding returns without a call
NoContext == <<"No context available">>
ErrorContext == <<"Error generating context">>

\* the summaries generate_chunk_metadata returns without an answer to parse
NoSummary == <<"No summary available">>
ErrorSummary == <<"Error generating summary">>

\* the four counters after "with self.token_lock" of the processor
CpTrackUsage(counts, usage) ==
    [key \in DOMAIN counts |-> counts[key] + usage[key]]

\* generate_contextual_embedding that counts the tokens of a failed call
ContextualEmbeddingCountsFailure(counts, outcome) ==
    IF ~cp_client THEN [text |-> NoContext, counts |-> counts]
    ELSE IF outcome.ok
    THEN [text |-> outcome.text, counts |-> CpTrackUsage(counts, outcome.usage)]
    ELSE [text |-> ErrorContext,
          counts |-> [counts EXCEPT !.input = @ + 1]]

\* generate_contextual_embedding: the context text returned and the
\* processor's counters after the call
generate_contextual_embedding(counts, outcome) ==
    IF ~cp_client THEN [text |-> NoContext, counts |-> counts]
    ELSE IF outcome.ok
    THEN [text |-> outcome.text, counts |-> CpTrackUsage(counts, outcome.usage)]
    ELSE [text |-> ErrorContext, counts |-> counts]

\* ContentProcessor.generate_chunk_metadata, given the model's answer
cp_generate_chunk_metadata(reply) ==
    IF ~cp_client
    THEN [summary |-> NoSummary, questions |-> <<>>, keywords |-> <<>>]
    ELSE IF reply.ok THEN ParseMetadata(reply.content, NoSummary)
    ELSE [summary |-> ErrorSummary, questions |-> <<>>, keywords |-> <<>>]

\* f"{chunk['text']}\n\nContext: {context_text}", kept as its three parts
ContextualizedText(chunk_text, context_text) ==
    <<chunk_text, ContextSep, context_text>>

\* process_chunk_context: the chunk with its two new fields
ProcessChunkContext(chunk, context_text) ==
    Merge(chunk, [context |-> context_text,
                  contextualized_text |->
                      ContextualizedText(chunk.text, context_text)])

\* the phase that follows the chunking, and the one that follows the
\* context loop
MetadataPhase ==
    IF cp_args.generate_metadata /\ cp_client THEN "metadata" ELSE "returned"
ContextPhase ==
    IF cp_args.generate_context /\ cp_client THEN "context" ELSE MetadataPhase

\* the texts process_content is run on: none, one or two one-token units
ProcessTexts ==
    LET unit == [blank |-> FALSE, tok |-> 1]
    IN  {<<>>, <<unit>>, <<unit, unit>>}

\* the chunking strategy has returned its chunks
Chunked ==
    /\ ppc = "chunking" /\ cpc = "done"
    /\ ppc' = ContextPhase
    /\ plog' = [plog EXCEPT !.chunked = chunks]
    /\ UNCHANGED <<cp_client, cp_args, cp_counts, pidx, chunkerVars,
                   storeVars, poolVars, embedVars>>

\* one round of the loop "chunks[i] = process_chunk_context(chunk)", or its
\* end
ContextStep(outcome) ==
    /\ ppc = "context"
    /\ IF pidx <= Len(chunks)
       THEN LET got == generate_contextual_embedding(cp_counts, outcome)
            IN  /\ chunks' = [chunks EXCEPT
                                 ![pidx] = ProcessChunkContext(@, got.text)]
                /\ cp_counts' = got.counts
                /\ plog' = [plog EXCEPT !.context = Append(@, outcome)]
                /\ pidx' = pidx + 1
                /\ UNCHANGED ppc
       ELSE /\ ppc' = MetadataPhase
            /\ pidx' = 1
            /\ UNCHANGED <<chunks, cp_counts, plog>>
    /\ UNCHANGED <<cp_client, cp_args, strategy, text, segments, max_tokens,
                   overlap_tokens, pos, current_chunk, current_tokens,
                   chunk_id, seeded, cpc, storeVars, poolVars, embedVars>>

\* one round of the loop "chunk.update(metadata)", or its end and the return
MetadataStep(reply) ==
    /\ ppc = "metadata"
    /\ IF pidx <= Len(chunks)
       THEN /\ chunks' = [chunks EXCEPT
                             ![pidx] = Merge(@, cp_generate_chunk_metadata(reply))]
            /\ plog' = [plog EXCEPT !.metadata = Append(@, reply)]
            /\ pidx' = pidx + 1
            /\ UNCHANGED ppc
       ELSE /\ ppc' = "returned"
            /\ UNCHANGED <<chunks, plog, pidx>>
    /\ UNCHANGED <<cp_client, cp_args, cp_counts, strategy, text, segments,
                   max_tokens, overlap_tokens, pos, current_chunk,
                   current_tokens, chunk_id, seeded, cpc, storeVars, poolVars, embedVars>>

\* a processor about to run process_content
InitProcess ==
    /\ ChunkerInputs
    /\ text \in ProcessTexts
    /\ cp_client \in BOOLEAN
    /\ cp_args \in [generate_context : BOOLEAN, generate_metadata : BOOLEAN]
    /\ cp_counts \in (IF cp_client THEN PriorCounts ELSE {ZeroCounts})
    /\ ppc = "chunking" /\ pidx = 1
    /\ plog = [context |-> <<>>, metadata |-> <<>>, counts0 |-> cp_counts,
               chunked |-> <<>>]
    /\ StoreIdle /\ PoolIdle /\ EmbedIdle

NextProcess ==
    \/ ManualStep
    \/ SemanticStep
    \/ ParagraphStep
    \/ FinalChunk
    \/ Chunked
    \/ \E o \in (IF pidx <= Len(chunks) THEN ContextOutcomes
                  ELSE {ContextFailed}) : ContextStep(o)
    \/ \E r \in (IF pidx <= Len(chunks) THEN MetadataReplies
                  ELSE {MetadataFailed}) : MetadataStep(r)

(***************************************************************************)
(* Enrichment: one load_chunks followed thread by thread, or one           *)
(* process_content.                                                        *)
(***************************************************************************)
InitEnrich == InitLoad \/ InitProcess

NextEnrich == NextLoad \/ NextProcess

SpecEnrich == InitEnrich /\ [][NextEnrich]_vars

(***************************************************************************)
(* The pipeline: process_content chunks and enriches a document of         *)
(* one-token paragraphs, and its chunks are handed to load_chunks of a     *)
(* store, which is then saved and read back.                               *)
(***************************************************************************)
\* a chunk of the processor as the store gets it; its text, the joined
\* paragraphs, is the chunk text of the document at its place
StoreChunk(chunk) == [chunk EXCEPT !.text = Document[chunk.id + 1]]

\* vector_db.load_chunks(chunks=chunks, ...) on what process_content
\* returned, the first call made on the store
LoadProcessed ==
    /\ ppc = "returned" /\ ncalls = 0
    /\ LoadChunksOf([j \in 1..Len(chunks) |-> StoreChunk(chunks[j])])

\* a processor about to run process_content with the paragraph strategy,
\* and a new store
InitPipeline ==
    /\ strategy = "paragraph"
    /\ text \in ProcessTexts
    /\ segments = NonBlankPositions(text)
    /\ max_tokens = 1 /\ overlap_tokens = 0
    /\ pos = 1 /\ chunks = <<>> /\ current_chunk = <<>>
    /\ current_tokens = 0 /\ chunk_id = 0 /\ seeded = 0 /\ cpc = "loop"
    /\ cp_client \in BOOLEAN
    /\ cp_args \in [generate_context : BOOLEAN, generate_metadata : BOOLEAN]
    /\ cp_counts = ZeroCounts
    /\ ppc = "chunking" /\ pidx = 1
    /\ plog = [context |-> <<>>, metadata |-> <<>>, counts0 |-> cp_counts,
               chunked |-> <<>>]
    /\ name \in Names
    /\ embedding_model \in BOOLEAN
    /\ anthropic_client \in BOOLEAN
    /\ cohere_client = FALSE
    /\ embeddings = <<>> /\ metadata = <<>> /\ query_cache = EmptyCache
    /\ token_counts = ZeroCounts /\ disk = [n \in Names |-> NoFile]
    /\ ret = [op |-> "init", status |-> "ok"]
    /\ valid = [n \in Names |-> NoSnapshot] /\ ncalls = 0
    /\ PoolIdle /\ EmbedIdle

NextPipeline ==
    \/ ParagraphStep
    \/ FinalChunk
    \/ Chunked
    \/ \E o \in (IF pidx <= Len(chunks) THEN ContextOutcomes
                  ELSE {ContextFailed}) : ContextStep(o)
    \/ \E r \in (IF pidx <= Len(chunks) THEN MetadataReplies
                  ELSE {MetadataFailed}) : MetadataStep(r)
    \/ LoadProcessed
    \/ \E w \in WriteOutcomes : SaveDb(w)
    \/ LoadDb

SpecPipeline == InitPipeline /\ [][NextPipeline]_vars

(***************************************************************************)
(* embed_texts batch by batch.                                             *)
(*   epc: "start" -> "loop" -> "returned", or "raised" from "start" (no    *)
(*        embedding model) and from "loop" (the provider call fails)       *)
(***************************************************************************)
\* the texts handed to embed_texts: chunk texts, with or without context
EmbedTexts ==
    {Document[1], Document[2], Document[1] \o ContextSep \o <<"c1">>}

\* if not self.embedding_model: raise ValueError
EmbedStart ==
    /\ epc = "start"
    /\ epc' = IF embedding_model THEN "loop" ELSE "raised"
    /\ UNCHANGED <<et_texts, et_batch_size, et_i, et_embeddings, et_sent,
                   chunkerVars, storeVars, poolVars, procVars>>

\* one round of the loop over the batches: the call of genai.embed_content
\* on the batch, which may raise, and the inner loop that appends its
\* vectors
EmbedBatch(ok) ==
    /\ epc = "loop" /\ et_i <= Len(et_texts)
    /\ LET batch == Batch(et_texts, et_i, et_batch_size)
       IN  /\ et_sent' = Append(et_sent, batch)
           /\ IF ok
              THEN /\ et_embeddings' = et_embeddings \o EmbedContent(batch)
                   /\ et_i' = et_i + et_batch_size
                   /\ UNCHANGED epc
              ELSE /\ epc' = "raised"
                   /\ UNCHANGED <<et_embeddings, et_i>>
    /\ UNCHANGED <<et_texts, et_batch_size, chunkerVars, storeVars, poolVars,
                   procVars>>

\* the range is exhausted: return embeddings
EmbedReturn ==
    /\ epc = "loop" /\ et_i > Len(et_texts)
    /\ epc' = "returned"
    /\ UNCHANGED <<et_texts, et_batch_size, et_i, et_embeddings, et_sent,
                   chunkerVars, storeVars, poolVars, procVars>>

\* a store about to run embed_texts(texts, batch_size)
InitEmbed ==
    /\ name \in Names
    /\ embedding_model \in BOOLEAN
    /\ anthropic_client = FALSE /\ cohere_client = FALSE
    /\ embeddings = <<>> /\ metadata = <<>> /\ query_cache = EmptyCache
    /\ token_counts = ZeroCounts /\ disk = [n \in Names |-> NoFile]
    /\ ret = [op |-> "init", status |-> "ok"]
    /\ valid = [n \in Names |-> NoSnapshot] /\ ncalls = 0
    /\ et_texts \in SeqsUpTo(EmbedTexts, MaxTexts)
    /\ et_batch_size \in 1..MaxBatch
    /\ et_i = 1 /\ et_embeddings = <<>> /\ et_sent = <<>> /\ epc = "start"
    /\ ChunkerIdle /\ PoolIdle /\ ProcessIdle

NextEmbed ==
    \/ EmbedStart
    \/ \E ok \in BOOLEAN : EmbedBatch(ok)
    \/ EmbedReturn

SpecEmbed == InitEmbed /\ [][NextEmbed]_vars

(***************************************************************************)
(* The chunker's specification: one chunking call, the store left alone.   *)
(***************************************************************************)
InitChunker ==
    ChunkerInputs /\ StoreIdle /\ PoolIdle /\ ProcessIdle /\ EmbedIdle

NextChunker ==
    \/ ManualStep
    \/ SemanticStep
    \/ ParagraphStep
    \/ FinalChunk

SpecChunker == InitChunker /\ [][NextChunker]_vars

(***************************************************************************)
(* Properties of the store (checked under Spec).                           *)
(***************************************************************************)
SearchReturned == ret.op = "search" /\ ret.status = "ok"

\* C1: in every reachable state of a store the embeddings and the metadata
\* have the same length, and embeddings[i] is the vector computed from the
\* contextualized_content of metadata[i].
C1_Aligned ==
    /\ Len(embeddings) = Len(metadata)
    /\ \A i \in 1..Len(metadata) :
           embeddings[i] = Embedding(metadata[i].contextualized_content)

\* two records stored in completion order (not input order), one of them
\* with a context, read back by load_db
C1_Witness ==
    /\ ret.op = "load_db" /\ ret.status = "ok"
    /\ Len(metadata) = 2 /\ Len(embeddings) = 2
    /\ metadata[1].id = 1
    /\ metadata[1].context # EmptyString
    /\ metadata[2].context = EmptyString
    /\ embeddings[1] = Embedding(metadata[1].contextualized_content)

\* C2: in the result of search, of two records with equal similarity the
\* one with the smaller index in the store comes first.  (The statement of
\* the claim; the code violates it.)
C2_TiesByInsertionIndex ==
    SearchReturned =>
        \A a, b \in 1..Len(ret.results) :
            (a < b /\ ret.results[a].similarity = ret.results[b].similarity)
                => ret.top_indices[a] < ret.top_indices[b]

\* C3: on a non-empty store search(query, k), k >= 0, returns min(k, n)
\* results, each a stored metadata record with its dot product with the
\* query, in non-increasing order of similarity, and no record left out has
\* a strictly higher similarity than a returned one.
C3_SearchResult ==
    SearchReturned =>
        LET n == Len(embeddings)
            res == ret.results
            top == ret.top_indices
            qv == QueryEmbedding(ret.query)
            sim(i) == Dot(embeddings[i], qv)
        IN  /\ n > 0
            /\ Len(res) = Min(ret.k, n)
            /\ Len(top) = Len(res)
            /\ \A a \in 1..Len(res) :
                   /\ top[a] \in 1..n
                   /\ res[a].metadata = metadata[top[a]]
                   /\ res[a].similarity = sim(top[a])
            /\ \A a, b \in 1..Len(res) : a < b =>
                   /\ top[a] # top[b]
                   /\ res[a].similarity >= res[b].similarity
            /\ \A i \in 1..n :
                   (\A a \in 1..Len(res) : top[a] # i) =>
                       \A a \in 1..Len(res) : sim(i) <= res[a].similarity

\* a search that leaves out a record of strictly lower similarity
C3_Witness ==
    /\ SearchReturned
    /\ Len(embeddings) = 2 /\ ret.k = 1 /\ Len(ret.results) = 1
    /\ \E i \in 1..2 :
           /\ i # ret.top_indices[1]
           /\ Dot(embeddings[i], QueryEmbedding(ret.query))
                  < ret.results[1].similarity

\* C4: save_db is all-or-nothing: whatever happens to later writes, the
\* last snapshot that was completely written for a name is on disk and is
\* what load_db reads.  (The statement of the claim; the code violates it.)
C4_SnapshotSurvives ==
    \A n \in Names :
        valid[n].saved =>
            /\ disk[n].exists
            /\ Readable(disk[n])
            /\ LoadedState(Unpickle(disk[n].bytes), ZeroCounts) = valid[n].state

\* C5: after save_db, load_db gives the store the embeddings, metadata,
\* query cache and token counters of the saved store, index by index; in
\* particular on a fresh instance of the same name.
C5_RoundTrip ==
    (ret.op = "load_db" /\ ret.status = "ok") =>
        /\ valid[name].saved
        /\ storeState = valid[name].state

\* a fresh instance that has loaded records, a cached query and counters
C5_Witness ==
    /\ ret.op = "load_db" /\ ret.status = "ok" /\ ret.fresh
    /\ Len(embeddings) = 2
    /\ metadata[1].context # EmptyString
    /\ \E q \in Queries : query_cache[q] # NoVector
    /\ token_counts.input > 0
    /\ storeState = valid[name].state

ChunkIdx == 1..Len(chunks)

\* the units of chunk j without its overlap seed
OwnUnits(j) == SubSeq(chunks[j].text, chunks[j].seed + 1, Len(chunks[j].text))

\* chunk j starts with n >= 1 units that are the last n units of chunk j-1
StartsWithTrailing(j) ==
    LET prev == chunks[j - 1].text
        cur == chunks[j].text
    IN  \E n \in 1..Len(prev) :
            /\ n <= Len(cur)
            /\ SubSeq(cur, 1, n) = SubSeq(prev, Len(prev) - n + 1, Len(prev))

\* C7: with overlap_tokens > 0, no chunk of manual_chunk has a token count
\* above max_tokens unless one of its sentences alone has more than
\* max_tokens tokens.  (The statement of the claim; the code violates it.)
C7_TokensWithinMax ==
    (strategy = "manual" /\ overlap_tokens > 0) =>
        \A j \in ChunkIdx :
            \/ chunks[j].tokens <= max_tokens
            \/ \E k \in 1..Len(chunks[j].text) :
                   count_tokens(chunks[j].text[k]) > max_tokens

\* C8 as stated: with overlap_tokens > 0, every chunk of manual_chunk after
\* the first starts with at least one trailing sentence of its predecessor.
C8_OverlapNeverEmpty ==
    (strategy = "manual" /\ overlap_tokens > 0) =>
        \A j \in ChunkIdx : j > 1 => StartsWithTrailing(j)

\* C8 amended: with overlap_tokens > 0, a chunk of manual_chunk after the
\* first starts with at least one trailing sentence of its predecessor
\* whenever the predecessor's last sentence has at most overlap_tokens
\* tokens; when that sentence has more, the chunk starts with no overlap.
C8_OverlapWhenLastFits ==
    (strategy = "manual" /\ overlap_tokens > 0) =>
        \A j \in ChunkIdx : j > 1 =>
            LET prev == chunks[j - 1].text
                last == prev[Len(prev)]
            IN  IF count_tokens(last) <= overlap_tokens
                THEN StartsWithTrailing(j)
                ELSE chunks[j].text[1] = last + 1

C8_Witness ==
    /\ cpc = "done" /\ strategy = "manual" /\ overlap_tokens > 0
    /\ Len(chunks) >= 2
    /\ StartsWithTrailing(2)

\* C9: for each strategy, the units of all chunks in chunk order, overlap
\* seeds left out, are exactly the non-blank units of the input in their
\* original order, each once.
C9_UnitsPreserved ==
    cpc = "done" =>
        Flatten([j \in ChunkIdx |-> OwnUnits(j)]) = NonBlankPositions(text)

C9_Witness ==
    /\ cpc = "done" /\ Len(chunks) >= 2
    /\ \E p \in 1..Len(text) : text[p].blank
    /\ Flatten([j \in ChunkIdx |-> OwnUnits(j)]) = NonBlankPositions(text)

\* C10: the chunk at position i of the returned sequence has id i (counting
\* from 0): ids are 0..n-1 in emission order.
C10_IdsContiguous ==
    \A j \in ChunkIdx : chunks[j].id = j - 1

C10_Witness ==
    /\ cpc = "done" /\ Len(chunks) >= 3
    /\ \A j \in ChunkIdx : chunks[j].id = j - 1

(***************************************************************************)
(* Properties of retrieval (checked under SpecRetrieval).                  *)
(***************************************************************************)
\* C13: when the rerank backend call fails inside rerank_results, alone or
\* within hybrid_search, the call ends with that failure and returns no
\* result list.  (The statement of the claim; the code violates it.)
C13_RerankFailurePropagates ==
    ret.op \in {"rerank_results", "hybrid_search"} =>
        ~(ret.status = "ok" /\ ret.rerank_failed)

\* C14: without a Cohere client rerank_results(query, results, top_n)
\* returns the first top_n elements of results in input order, each
\* unchanged and without a rerank_score, and calls no backend.
C14_NoRerankerFirstN ==
    (ret.op = "rerank_results" /\ ~cohere_client) =>
        /\ ret.status = "ok"
        /\ Len(ret.results) = Min(ret.top_n, Len(ret.input))
        /\ \A j \in 1..Len(ret.results) :
               /\ ret.results[j] = ret.input[j]
               /\ "rerank_score" \notin DOMAIN ret.results[j]
        /\ ret.rerank_calls = 0

\* two results cut to the first one
C14_Witness ==
    /\ ret.op = "rerank_results" /\ ~cohere_client
    /\ Len(ret.input) = 2 /\ ret.top_n = 1
    /\ ret.results = <<ret.input[1]>>

C19_ConfigErrorBeforeCalls ==
    ret.op = "load_chunks" =>
        /\ ~embedding_model =>
               (ret.status = "config_error" /\ ret.chat_calls = 0)
        /\ (ret.generate_context /\ ~anthropic_client) =>
               ret.status = "config_error"

(***************************************************************************)
(* Properties of enrichment (checked under SpecEnrich).                    *)
(***************************************************************************)
MetadataFields == {"summary", "questions", "keywords"}

\* the futures whose context call is in flight
InFlight == {i \in DOMAIN task : task[i].pc = "call"}

\* the stored record of input chunk i
RecordOf(i) ==
    CHOOSE j \in 1..Len(metadata) : metadata[j].id = lc_chunks[i].id

RECURSIVE SumUsage(_, _)
\* the sum of one usage figure over the successful context calls of the
\* futures i..n
SumUsage(key, i) ==
    IF i > Len(task) THEN 0
    ELSE (IF task[i].answer.ok THEN task[i].answer.usage[key] ELSE 0)
             + SumUsage(key, i + 1)

\* nothing more can happen
Terminal == ~ENABLED NextEnrich

\* C11: the context calls for the chunks of one document are never in
\* flight together.  (The statement of the claim; load_chunks violates it.)
C11_ContextCallsSequential == Cardinality(InFlight) <= 1

\* C12: when load_chunks has returned, the stored records are those of the
\* input chunks in the order of the input, whatever the order in which the
\* workers finished.  (The statement of the claim; the code violates it.)
C12_InputOrder ==
    mpc = "returned" =>
        /\ Len(metadata) = Len(lc_chunks)
        /\ \A i \in 1..Len(metadata) : metadata[i].id = lc_chunks[i].id

\* C16: a context call that errors raises nothing, gives the empty string
\* (generate_chunk_context) or the sentinel (generate_contextual_embedding)
\* as context, and leaves the four counters as they were: the worker goes
\* on past the token tracking, process_content goes on with its loop.
C16_FailSoft ==
    [][/\ \A i \in DOMAIN task :
             (/\ i \in DOMAIN task'
              /\ task[i].pc = "call" /\ task'[i].pc # "call"
              /\ ~task'[i].answer.ok)
                 => /\ token_counts' = token_counts
                    /\ generate_chunk_context(task'[i].answer) = EmptyString
                    /\ task'[i].pc \in {"md_call", "done"}
                    /\ mpc' = mpc
       /\ (/\ ppc = "context"
           /\ Len(plog'.context) > Len(plog.context)
           /\ ~plog'.context[Len(plog'.context)].ok)
              => /\ cp_counts' = cp_counts
                 /\ chunks'[pidx].context = ErrorContext
                 /\ ppc' = "context" /\ pidx' = pidx + 1]_vars

\* load_chunks has returned after one context call failed and one
\* succeeded: the record of the first has no context, the counters moved
C16_Witness ==
    /\ mpc = "returned"
    /\ \E i, j \in DOMAIN task :
           /\ ~task[i].answer.ok /\ task[j].answer.ok
           /\ metadata[RecordOf(i)].context = EmptyString
           /\ metadata[RecordOf(j)].context # EmptyString
    /\ token_counts # counts0

\* C17: whatever the model answers, and whether or not a client exists,
\* the metadata generator of either class returns the three fields
\* summary, questions and keywords.  (The statement of the claim;
\* ContextualVectorDB.generate_chunk_metadata violates it.)
C17_MetadataAllFields ==
    /\ \A i \in DOMAIN task :
           (task[i].pc = "done" /\ lc_args.generate_metadata)
               => MetadataFields \subseteq DOMAIN task[i].md
    /\ \A j \in 1..Len(plog.metadata) :
           MetadataFields \subseteq DOMAIN chunks[j]

C20_CountersExact ==
    /\ \A i \in DOMAIN task :
           /\ task[i].pc \in {"read", "write", "unlock"} => token_lock = i
           /\ task[i].pc # "done" => mpc = "collect"
    /\ (mpc \in {"embed", "save", "returned", "raised"} /\ task # <<>>) =>
           \A k \in 1..Len(CounterKeys) :
               token_counts[CounterKeys[k]] =
                   counts0[CounterKeys[k]] + SumUsage(CounterKeys[k], 1)

\* two successful context calls on a store whose counters were not zero:
\* the workers have gone through the lock one after the other
C20_Witness ==
    /\ mpc = "returned" /\ lc_args.parallel_threads = 2
    /\ Len(task) = 2 /\ task[1].answer.ok /\ task[2].answer.ok
    /\ counts0.input > 0
    /\ token_counts.input = counts0.input + 2 * task[1].answer.usage.input
    /\ metadata[1].id = lc_chunks[2].id

\* C21: during load_chunks the store's embeddings and metadata change in
\* one step only, the two assignments that follow embed_texts, made by the
\* calling thread once as_completed is exhausted and every worker is done;
\* until then they are what they were when the call was made.
C21_StoreAssignedAfterWorkers ==
    [][(embeddings' # embeddings \/ metadata' # metadata)
          => /\ mpc = "embed" /\ mpc' = "save"
             /\ \A i \in DOMAIN task : task[i].pc = "done"
             /\ yielded = DOMAIN task
             /\ embeddings' = embed_texts(lc_texts)
             /\ metadata' = lc_metadata]_vars

\* a store that held one record has been assigned the two records of two
\* workers, the second of which finished first
C21_Witness ==
    /\ mpc = "save" /\ Len(task) = 2
    /\ valid[name].saved /\ Len(valid[name].state[2]) = 1
    /\ Len(metadata) = 2 /\ Len(embeddings) = 2
    /\ metadata[1].id = lc_chunks[2].id

\* load_chunks has made its two assignments
Assigned ==
    \/ mpc \in {"save", "returned"}
    \/ mpc = "raised" /\ ret.status = "save_error"

\* C22: after load_chunks with generate_context unset, or without a chat
\* client, the store holds one record per chunk, in input order, and in
\* each the original content is the text of its chunk, the contextualized
\* content is the original content and the context is empty.
C22_PlainRecords ==
    (Assigned /\ ~Contextual) =>
        /\ Len(metadata) = Len(lc_chunks)
        /\ \A i \in 1..Len(metadata) :
               /\ metadata[i].id = lc_chunks[i].id
               /\ metadata[i].original_content = lc_chunks[i].text
               /\ metadata[i].contextualized_content
                      = metadata[i].original_content
               /\ metadata[i].context = EmptyString

\* context generation was asked for on a store without chat client: two
\* plain records
C22_Witness ==
    /\ mpc = "returned" /\ lc_args.generate_context /\ ~anthropic_client
    /\ Len(metadata) = 2
    /\ metadata[2].contextualized_content = lc_chunks[2].text
    /\ metadata[2].context = EmptyString

(***************************************************************************)
(* Properties of embed_texts (checked under SpecEmbed).                    *)
(***************************************************************************)
\* C23: embed_texts(texts, batch_size) hands the provider consecutive
\* batches of at most batch_size texts, and when it returns, its result has
\* the length of texts and at each index the vector the provider gives for
\* the text at that index; on an empty list it calls nothing and returns
\* the empty list.
C23_EmbedTexts ==
    /\ \A b \in 1..Len(et_sent) : Len(et_sent[b]) \in 1..et_batch_size
    /\ Flatten(et_sent) = SubSeq(et_texts, 1, Len(Flatten(et_sent)))
    /\ et_texts = <<>> => et_sent = <<>>
    /\ epc = "returned" =>
           /\ Flatten(et_sent) = et_texts
           /\ Len(et_embeddings) = Len(et_texts)
           /\ \A i \in 1..Len(et_texts) :
                  et_embeddings[i] = Embedding(et_texts[i])
           /\ et_embeddings = EmbedBatches(et_texts, 1, et_batch_size)

\* three texts in batches of two: a full batch and a batch of one
C23_Witness ==
    /\ epc = "returned" /\ et_batch_size = 2
    /\ Len(et_texts) = 3 /\ et_texts[1] # et_texts[3]
    /\ et_sent = <<SubSeq(et_texts, 1, 2), SubSeq(et_texts, 3, 3)>>
    /\ et_embeddings[3] = Embedding(et_texts[3])

(***************************************************************************)
(* The query cache (checked under Spec).                                   *)
(***************************************************************************)
\* C24 as stated: no call on a store takes a query out of its cache or
\* changes its vector.
C24_CacheOnlyGrows ==
    [][ret'.op # "init" =>
          \A q \in CachedQueries : query_cache'[q] = query_cache[q]]_vars

\* C24 amended: search, load_chunks and save_db keep every cached query
\* with its vector, and a search of a cached query takes its vector from
\* the cache and makes no embedding call; a load_db that succeeds replaces
\* the cache by the cache of the snapshot it reads, and a load_db that
\* fails leaves it as it was.
C24_CacheGrowsUntilLoadDb ==
    [][/\ ret'.op \in {"search", "load_chunks", "save_db"} =>
              \A q \in CachedQueries : query_cache'[q] = query_cache[q]
       /\ (ret'.op = "search" /\ ret'.status = "ok") =>
              /\ query_cache'[ret'.query] = ret'.query_embedding
              /\ ret'.query \in CachedQueries =>
                     /\ ret'.embed_calls = 0
                     /\ ret'.query_embedding = query_cache[ret'.query]
       /\ ret'.op = "load_db" =>
              IF ret'.status = "ok"
              THEN query_cache' = DataGet(Unpickle(disk[name].bytes),
                                         "query_cache", EmptyCache)
              ELSE UNCHANGED query_cache]_vars

\* load_db has taken a cached query out of the cache: the snapshot was
\* written before the query was searched
C24_Witness ==
    /\ ret.op = "load_db" /\ ret.status = "ok"
    /\ \E q \in ret.cached : query_cache[q] = NoVector

(***************************************************************************)
(* Enrichment fields along the pipeline (checked under SpecPipeline).      *)
(***************************************************************************)
EnrichmentFields ==
    {"context", "contextualized_text", "summary", "questions", "keywords"}

\* the empty string and the empty list
Blank(v) == v = <<>>

\* the fields of chunk or record d that carry something
Carried(d) == {f \in EnrichmentFields \cap DOMAIN d : ~Blank(d[f])}

\* C25: an enrichment field that process_content has put on a chunk is
\* never removed or blanked: the chunk keeps the context and the
\* contextualized text of its context call through the metadata pass, and
\* every record of the store, whatever the flags of load_chunks and
\* through save_db and load_db, carries each field that the chunk it was
\* built from carries.  (The statement of the claim; load_chunks violates
\* it.)
C25_NeverRetracted ==
    /\ \A j \in 1..Len(plog.context) :
           /\ {"context", "contextualized_text"} \subseteq Carried(chunks[j])
           /\ chunks[j].context =
                  generate_contextual_embedding(ZeroCounts, plog.context[j]).text
    /\ \A i \in 1..Len(metadata) :
           Carried(chunks[metadata[i].id + 1]) \subseteq Carried(metadata[i])

(***************************************************************************)
(* More properties of the chunker (checked under SpecChunker).             *)
(***************************************************************************)
\* the largest token count of a unit of the input
LargestUnit ==
    IF text = <<>> THEN 0
    ELSE CHOOSE m \in {text[p].tok : p \in 1..Len(text)} :
             \A p \in 1..Len(text) : text[p].tok <= m

Max(a, b) == IF a > b THEN a ELSE b

\* C26: in the three strategies no chunk is empty, and when the call has
\* returned: an input with a non-blank unit has given at least one chunk
\* and the last chunk ends with the last non-blank unit of the input; an
\* input without non-blank unit has given no chunk.
C26_NoEmptyFlushNoDrop ==
    /\ \A j \in ChunkIdx : Len(chunks[j].text) >= 1
    /\ cpc = "done" =>
           LET units == NonBlankPositions(text)
           IN  IF units = <<>> THEN chunks = <<>>
               ELSE /\ chunks # <<>>
                    /\ LET last == chunks[Len(chunks)].text
                       IN  last[Len(last)] = units[Len(units)]

\* semantic_chunk on an input that ends with a blank section: two chunks,
\* the last one ending with the last section that is not blank
C26_Witness ==
    /\ cpc = "done" /\ strategy = "semantic"
    /\ text # <<>> /\ text[Len(text)].blank
    /\ Len(chunks) = 2
    /\ chunks[2].text[Len(chunks[2].text)] = Len(text) - 1

\* C27: a flush of manual_chunk starts the next buffer with the longest
\* run of trailing sentences of the emitted chunk whose token counts sum
\* to at most overlap_tokens, in their order, and with that sum as token
\* count, before the sentence at hand is added; with overlap_tokens = 0
\* the buffer starts empty with count 0.
C27_OverlapSeed ==
    [][(strategy = "manual" /\ cpc' = "loop"
            /\ Len(chunks') = Len(chunks) + 1) =>
          LET emitted == chunks'[Len(chunks')].text
              seed == SubSeq(current_chunk', 1, Len(current_chunk') - 1)
              n == Len(seed)
              trailing(m) == SubSeq(emitted, Len(emitted) - m + 1, Len(emitted))
          IN  /\ current_chunk' = Append(seed, segments[pos])
              /\ n <= Len(emitted)
              /\ seed = trailing(n)
              /\ SumTokens(text, seed) <= overlap_tokens
              /\ n < Len(emitted) =>
                     SumTokens(text, trailing(n + 1)) > overlap_tokens
              /\ current_tokens'
                     = SumTokens(text, seed) + count_tokens(segments[pos])
              /\ overlap_tokens = 0 => seed = <<>>]_vars

\* the second chunk starts with the last two of the three sentences of the
\* first
C27_Witness ==
    /\ cpc = "done" /\ strategy = "manual" /\ overlap_tokens > 0
    /\ Len(chunks) >= 2
    /\ Len(chunks[1].text) = 3 /\ chunks[2].seed = 2
    /\ SubSeq(chunks[2].text, 1, 2) = SubSeq(chunks[1].text, 2, 3)

\* C28: the token count recorded on a chunk of manual_chunk is the sum of
\* the token counts of its sentences, overlap seed included, and is at most
\* the larger of max_tokens and overlap_tokens plus the token count of the
\* largest sentence; there are never more chunks than sentences.
C28_TokensAndCount ==
    strategy = "manual" =>
        /\ \A j \in ChunkIdx :
               /\ chunks[j].tokens = SumTokens(text, chunks[j].text)
               /\ chunks[j].tokens
                      <= Max(max_tokens, overlap_tokens + LargestUnit)
        /\ Len(chunks) <= Len(text)

\* a chunk whose overlap seed takes it above max_tokens, up to the bound
C28_Witness ==
    /\ cpc = "done" /\ strategy = "manual"
    /\ Len(chunks) = Len(text) /\ Len(chunks) >= 2
    /\ \E j \in ChunkIdx :
           /\ chunks[j].seed > 0
           /\ chunks[j].tokens > max_tokens
           /\ chunks[j].tokens = overlap_tokens + LargestUnit
           /\ chunks[j].tokens = SumTokens(text, chunks[j].text)

(***************************************************************************)
(* What load_chunks leaves in the store (checked under SpecEnrich).        *)
(***************************************************************************)
\* the snapshot file of a store whose earlier load_chunks saved store0
Snapshot0 ==
    IF store0[2] = <<>> THEN NoFile
    ELSE [exists |-> TRUE,
          bytes |-> Pickle(SnapshotData(store0[1], store0[2], EmptyCache,
                                        counts0))]

\* C29: when embed_texts fails inside load_chunks, for want of a model or
\* by an error of the provider, the embeddings and the metadata of the
\* store are those it had when the call was made, no snapshot has been
\* written and the snapshot of the earlier load is on disk as it was; the
\* query cache is as it was, and of the store's state only the token
\* counters may differ.
C29_EmbedFailureKeepsStore ==
    (mpc = "raised" /\ ret.status \in {"embed_error", "config_error"}) =>
        /\ <<embeddings, metadata>> = store0
        /\ disk[name] = Snapshot0
        /\ valid[name].saved = (store0[2] # <<>>)
        /\ valid[name].saved =>
               valid[name].state = <<store0[1], store0[2], EmptyCache, counts0>>
        /\ query_cache = EmptyCache

\* the provider failed after two context calls on a store that held a
\* record: the record and its snapshot are there, the counters have moved
C29_Witness ==
    /\ mpc = "raised" /\ ret.status = "embed_error"
    /\ Len(task) = 2 /\ lc_metadata # <<>>
    /\ store0[2] # <<>> /\ metadata = store0[2] /\ embeddings = store0[1]
    /\ Readable(disk[name])
    /\ Unpickle(disk[name].bytes).metadata = store0[2]
    /\ token_counts # counts0

\* C30: when load_chunks has returned, the store holds one record per
\* input chunk and nothing else, whatever it held before; a record's
\* context is what the context call of its chunk gave, its original
\* content the text of its chunk; its contextualized content is the
\* original content when the context is empty, and else the original
\* content, the separator and the context; the text that was embedded for
\* it, and whose vector stands at its index, is its contextualized content.
C30_OneRecordPerChunk ==
    mpc = "returned" =>
        /\ Len(metadata) = Len(lc_chunks)
        /\ Len(embeddings) = Len(lc_chunks)
        /\ \A i \in 1..Len(lc_chunks) :
               /\ Cardinality({j \in 1..Len(metadata) :
                                  metadata[j].id = lc_chunks[i].id}) = 1
               /\ metadata[RecordOf(i)].original_content = lc_chunks[i].text
               /\ Contextual =>
                      metadata[RecordOf(i)].context
                          = generate_chunk_context(task[i].answer)
        /\ \A j \in 1..Len(metadata) :
               LET rec == metadata[j]
               IN  /\ rec.contextualized_content =
                          IF rec.context = EmptyString
                          THEN rec.original_content
                          ELSE rec.original_content
                                   \o <<"<nl><nl>Context: ">> \o rec.context
                   /\ lc_texts[j] = rec.contextualized_content
                   /\ embeddings[j] = Embedding(lc_texts[j])

\* a store that held one record holds the two records of the new chunks,
\* one with context and one without
C30_Witness ==
    /\ mpc = "returned" /\ store0[2] # <<>>
    /\ Len(lc_chunks) = 2 /\ Len(metadata) = 2
    /\ \E i, j \in 1..2 :
           /\ metadata[i].context = EmptyString
           /\ metadata[j].context # EmptyString
           /\ metadata[j].contextualized_content
                  = lc_chunks[metadata[j].id + 1].text \o ContextSep
                        \o metadata[j].context

====
